---- MODULE Spec2Model ----
(***************************************************************************)
(* A model of two layers of mlpack's ann module:                           *)
(*                                                                         *)
(*   RecurrentAttention  methods/ann/layer/recurrent_attention_impl.hpp    *)
(*   MeanPooling         methods/ann/layer/mean_pooling_impl.hpp           *)
(*                                                                         *)
(* The matrices the layers pass around are modelled as terms: the result   *)
(* of a sub-module call is the application of an uninterpreted function to *)
(* the terms it consumed, so that two values are equal exactly when they   *)
(* were computed the same way from the same inputs.  Sizes, cursors, the   *)
(* snapshot stack and the offsets of the gradient split are concrete.      *)
(*                                                                         *)
(* MeanPooling's tensors are concrete in shape and symbolic in content: an *)
(* element of the output is the set of input positions averaged and the    *)
(* divisor, an element of the gradient is the bag of (gy position,         *)
(* divisor) shares added into it.                                          *)
(***************************************************************************)
EXTENDS Integers, Sequences, FiniteSets, Bags, TLC

(***************************************************************************)
(* Bounds of the model.                                                    *)
(***************************************************************************)
MaxRho == 3        \* rho is drawn from 1..MaxRho
MaxParams == 1     \* each module has 0..MaxParams parameters
MaxStack == 8      \* a training Forward is not begun if it would push beyond
MaxInput == 5      \* MeanPooling: input width and height are 1..MaxInput
MaxKernel == 3     \* MeanPooling: kernel width and height are 1..MaxKernel
MaxStride == 2     \* MeanPooling: stride width and height are 1..MaxStride

\* The arguments a caller passes: two of each, to tell one call's data from
\* another's.
InputIds == {1, 2}

\* The batch sizes and channel counts of the inputs MeanPooling is given.
BatchSizes == {1, 2}
Channels == {1}

VARIABLES
  \* ---- RecurrentAttention: the fields of the object
  rho,                    \* number of unroll steps
  nR,                     \* rnnModule->Parameters().n_elem
  nA,                     \* actionModule->Parameters().n_elem
  deterministic,          \* inference mode: no snapshots are kept
  forwardStep,            \* cursor of Forward
  backwardStep,           \* cursor of Backward
  moduleOutputParameter,  \* the snapshot stack
  outputParameter,        \* network[l]->OutputParameter(), l = 0 (rnn), 1 (action)
  initialInput,           \* the action module's input at step 0
  recurrentError,
  actionError,
  actionDelta,
  rnnDelta,
  intermediateGradient,
  attentionGradient,
  moduleGradient,         \* network[l]->Gradient()
  \* ---- RecurrentAttention: the call in progress
  pc,                     \* "idle", "Forward", "Backward", "crashed"
  input,                  \* Forward's argument, during the call
  gy,                     \* Backward's argument, during the call
  g,                      \* Backward's result, a sum kept as the list of its
                          \* terms, until the next call
  output,                 \* Forward's result, until the next call
  fault,                  \* "none", "underflow" (pop of the empty stack), "bounds"
  \* ---- RecurrentAttention: history of the calls (not program state)
  op,                     \* the operation started last
  prevOp,                 \* the operation started before it
  fwdTraining,            \* the last Forward ran with deterministic = FALSE
  stackAtBegin,           \* the snapshot stack when the last operation began
  gradientAtBegin,        \* moduleGradient when the last Gradient began
  fwdLog,                 \* per step of the last Forward: what was consumed, produced
  bwdLog,                 \* per iteration of the last Backward: the same
  submatLog,              \* the sub-ranges the last Gradient formed
  \* ---- MeanPooling: the fields of the object
  kernelWidth,
  kernelHeight,
  strideWidth,
  strideHeight,
  floor,                  \* rounding mode: TRUE floor, FALSE ceil
  inputWidth,
  inputHeight,
  outputWidth,
  outputHeight,
  offset,
  batchSize,
  inSize,
  outSize,
  inputTemp,              \* a view of the input's memory: its shape
  outputTemp,
  gTemp,
  \* ---- MeanPooling: the call in progress
  mpOutput,               \* Forward's `output`
  mpG,                    \* Backward's `g`
  mpPc,                   \* "off", "idle", "forwarded", "backwarded", "crashed"
  mpFault                 \* "none", "divide" (by zero), "convert" (negative to size_t)

raVars == <<rho, nR, nA, deterministic, forwardStep, backwardStep,
            moduleOutputParameter, outputParameter, initialInput,
            recurrentError, actionError, actionDelta, rnnDelta,
            intermediateGradient, attentionGradient, moduleGradient,
            pc, input, gy, g, output, fault>>

raHistory == <<op, prevOp, fwdTraining, stackAtBegin, gradientAtBegin,
               fwdLog, bwdLog, submatLog>>

mpData == <<batchSize, inSize, outSize, inputTemp, outputTemp, gTemp,
            mpOutput, mpG>>

mpVars == <<kernelWidth, kernelHeight, strideWidth, strideHeight, floor,
            inputWidth, inputHeight, outputWidth, outputHeight, offset,
            mpPc, mpFault, mpData>>

vars == <<raVars, raHistory, mpVars>>

(***************************************************************************)
(* Terms.  T(f, n, args) is the value f_n(args); a leaf has no arguments.  *)
(***************************************************************************)
T(f, n, args) == [f |-> f, n |-> n, args |-> args]

Empty == T("empty", 0, <<>>)       \* a matrix that was never assigned
Zeros == T("zeros", 0, <<>>)       \* arma::zeros(...)
Garbage == T("garbage", 0, <<>>)   \* what back() of an empty vector yields
GBefore == T("g.before", 0, <<>>)  \* what the caller's g holds before Backward
InputTerm(i) == T("input", i, <<>>)
GyTerm(i) == T("gy", i, <<>>)

\* The two positions of `network`.
RnnIdx == 1
ActionIdx == 2
NetworkSize == 2

\* The sub-modules are layers outside this file: uninterpreted functions.
ActionForward(x) == T("action.Forward", 0, <<x>>)
RnnForward(x) == T("rnn.Forward", 0, <<x>>)
ActionBackward(x, err) == T("action.Backward", 0, <<x, err>>)
RnnBackward(x, err) == T("rnn.Backward", 0, <<x, err>>)

\* glimpseInput: column 0 is the input, column 1 holds the action output.
GlimpseInput(in, act) == T("glimpse", 0, <<in, act>>)

\* rnnDelta.col(1)
Col1(delta) == T("col", 1, <<delta>>)

(***************************************************************************)
(* Sequences and sums.                                                     *)
(***************************************************************************)
Back(s) == s[Len(s)]
PopBack(s) == SubSeq(s, 1, Len(s) - 1)

\* Elements first..last of a column vector, indices counted from 0 as in
\* submat(first, 0, last, 0).
SubVec(v, first, last) == [i \in 1..(last - first + 1) |-> v[first + i]]

\* A sum is the list of its terms; zeros(n, 1) is n empty sums.
ZeroVec(n) == [i \in 1..n |-> <<>>]
VecAdd(a, b) == [i \in 1..Len(a) |-> a[i] \o b[i]]

(***************************************************************************)
(* RecurrentAttention: construction.                                       *)
(***************************************************************************)
RAInit ==
  /\ rho \in 1..MaxRho
  /\ nR \in 0..MaxParams
  /\ nA \in 0..MaxParams
  /\ deterministic = FALSE
  /\ forwardStep = 0
  /\ backwardStep = 0
  /\ moduleOutputParameter = <<>>
  /\ outputParameter = <<Empty, Empty>>
  /\ initialInput = Empty
  /\ recurrentError = Empty
  /\ actionError = Empty
  /\ actionDelta = Empty
  /\ rnnDelta = Empty
  /\ intermediateGradient = <<>>
  /\ attentionGradient = <<>>
  /\ moduleGradient = << <<>>, <<>> >>
  /\ pc = "idle"
  /\ input = Empty
  /\ gy = Empty
  /\ g = <<>>
  /\ output = Empty
  /\ fault = "none"
  /\ op = "none"
  /\ prevOp = "none"
  /\ fwdTraining = FALSE
  /\ stackAtBegin = <<>>
  /\ gradientAtBegin = << <<>>, <<>> >>
  /\ fwdLog = <<>>
  /\ bwdLog = <<>>
  /\ submatLog = <<>>

\* The Deterministic() accessor: the caller switches between training and
\* inference between two calls.
SetDeterministic ==
  /\ pc = "idle"
  /\ deterministic' = ~deterministic
  /\ UNCHANGED <<rho, nR, nA, forwardStep, backwardStep,
                 moduleOutputParameter, outputParameter, initialInput,
                 recurrentError, actionError, actionDelta, rnnDelta,
                 intermediateGradient, attentionGradient, moduleGradient,
                 pc, input, gy, g, output, fault>>
  /\ UNCHANGED raHistory
  /\ UNCHANGED mpVars

(***************************************************************************)
(* RecurrentAttention::Forward.                                            *)
(***************************************************************************)
\* A variant that feeds the initial action input at every step.
ActionInputAlwaysInitial(step, initial, outs) == initial

\* What the action module consumes at a step.
ActionInput(step, initial, outs) ==
  IF step = 0 THEN initial ELSE outs[RnnIdx]

\* Variants of the saving loop: one that stops after the first module, one that
\* does not look at `deterministic`.
SaveFirstModuleOnly(stack, outs, det) ==
  IF ~det THEN Append(stack, outs[RnnIdx]) ELSE stack

SaveAlways(stack, outs, det) == stack \o outs

\* The loop over `network` that saves every module's output parameter.
SaveOutputParameter(stack, outs, det) ==
  IF ~det THEN stack \o outs ELSE stack

\* Entry: the action input is created once, the cursor starts at 0.
ForwardBegin ==
  /\ pc = "idle"
  /\ deterministic \/ Len(moduleOutputParameter) + NetworkSize * rho <= MaxStack
  /\ \E i \in InputIds : input' = InputTerm(i)
  /\ initialInput' = IF initialInput = Empty THEN Zeros ELSE initialInput
  /\ forwardStep' = 0
  /\ pc' = "Forward"
  /\ op' = "Forward"
  /\ prevOp' = op
  /\ fwdTraining' = ~deterministic
  /\ stackAtBegin' = moduleOutputParameter
  /\ fwdLog' = <<>>
  /\ bwdLog' = <<>>
  /\ submatLog' = <<>>
  /\ gradientAtBegin' = << <<>>, <<>> >>
  /\ g' = <<>>
  /\ output' = Empty
  /\ UNCHANGED <<rho, nR, nA, deterministic, backwardStep,
                 moduleOutputParameter, outputParameter,
                 recurrentError, actionError, actionDelta, rnnDelta,
                 intermediateGradient, attentionGradient, moduleGradient,
                 gy, fault>>
  /\ UNCHANGED mpVars

\* One iteration of the loop.
ForwardStep ==
  /\ pc = "Forward"
  /\ forwardStep < rho
  /\ LET actIn == ActionInput(forwardStep, initialInput, outputParameter)
         actOut == ActionForward(actIn)
         glimpse == GlimpseInput(input, actOut)
         rnnOut == RnnForward(glimpse)
         outs == [outputParameter EXCEPT ![ActionIdx] = actOut,
                                         ![RnnIdx] = rnnOut]
     IN /\ outputParameter' = outs
        /\ moduleOutputParameter' =
             SaveOutputParameter(moduleOutputParameter, outs, deterministic)
        /\ fwdLog' = Append(fwdLog, [step |-> forwardStep,
                                     actionIn |-> actIn,
                                     glimpse |-> glimpse,
                                     action |-> actOut,
                                     rnn |-> rnnOut])
  /\ forwardStep' = forwardStep + 1
  /\ UNCHANGED <<rho, nR, nA, deterministic, backwardStep, initialInput,
                 recurrentError, actionError, actionDelta, rnnDelta,
                 intermediateGradient, attentionGradient, moduleGradient,
                 pc, input, gy, g, output, fault>>
  /\ UNCHANGED <<op, prevOp, fwdTraining, stackAtBegin, gradientAtBegin,
                 bwdLog, submatLog>>
  /\ UNCHANGED mpVars

\* Variants that leave a cursor where it is.
ForwardResetStepStale == forwardStep
BackwardResetStepStale == backwardStep

\* The cursors after the loop.
ForwardResetStep == 0
BackwardResetStep == 0

\* Exit: the result is the recurrent module's output; both cursors are reset.
ForwardEnd ==
  /\ pc = "Forward"
  /\ forwardStep >= rho
  /\ output' = outputParameter[RnnIdx]
  /\ forwardStep' = ForwardResetStep
  /\ backwardStep' = BackwardResetStep
  /\ pc' = "idle"
  /\ input' = Empty
  /\ UNCHANGED <<rho, nR, nA, deterministic,
                 moduleOutputParameter, outputParameter, initialInput,
                 recurrentError, actionError, actionDelta, rnnDelta,
                 intermediateGradient, attentionGradient, moduleGradient,
                 gy, g, fault>>
  /\ UNCHANGED raHistory
  /\ UNCHANGED mpVars

(***************************************************************************)
(* RecurrentAttention::Backward.                                           *)
(***************************************************************************)
\* A variant with the branches exchanged.
RecurrentErrorSwapped(step, gyArg, aDelta) ==
  IF step = 0 THEN aDelta ELSE gyArg

\* The error handed to the recurrent module in an iteration.
RecurrentError(step, gyArg, aDelta) ==
  IF step = 0 THEN gyArg ELSE aDelta

\* A variant that restores in the order of the push.
RestoreIndexForward(l) == l + 1

\* The position of `network` that receives the l-th snapshot popped.
RestoreIndex(l) == (NetworkSize - 1 - l) + 1

\* The loop over `network` that pops one snapshot per module:
\* <<the output parameters restored, the stack left>>.  The statement assigns
\* the snapshot to network[size - 1 - l]; it is read as loading that module's
\* output parameter, as the save loop of Forward stores it.
RestoreOutputParameter(stack, outs) ==
  LET first == Back(stack)
      rest == PopBack(stack)
      second == Back(rest)
  IN << [[outs EXCEPT ![RestoreIndex(0)] = first]
               EXCEPT ![RestoreIndex(1)] = second],
        PopBack(rest) >>

\* A variant that tests for the first iteration instead of the last.
ActionBackwardInputFirstStep(step, n, initial, outs) ==
  IF step = 0 THEN outs[ActionIdx] ELSE initial

\* What the action module's Backward is given as its input.
ActionBackwardInput(step, n, initial, outs) ==
  IF step = n - 1 THEN outs[ActionIdx] ELSE initial

\* A variant that adds in every iteration.
InputGradientAddOnly(step, old, delta) == Append(old, Col1(delta))

\* g after an iteration: set in the first, added to afterwards.
InputGradient(step, old, delta) ==
  IF step = 0 THEN <<Col1(delta)>> ELSE Append(old, Col1(delta))

StepTerm(k) == T("step", k, <<>>)

\* IntermediateGradient(): the gradient of both modules for this step, laid
\* out in the combined buffer (recurrent module first).
StepGradient(step, outs, rErr, aErr) ==
  [i \in 1..(nR + nA) |->
     IF i <= nR
       THEN <<T("rnn.Gradient", i, <<StepTerm(step), outs[RnnIdx], rErr>>)>>
       ELSE <<T("action.Gradient", i - nR,
                <<StepTerm(step), outs[ActionIdx], aErr>>)>>]

\* The modules' gradients are views of the combined buffer.
GradientViews(buffer) ==
  << SubVec(buffer, 0, nR - 1), SubVec(buffer, nR, nR + nA - 1) >>

\* A variant that leaves the action error as it was.
ActionErrorUnset(alloc, old) == old

\* The action error after the allocation block: zeros when the block ran.
ActionErrorAlloc(alloc, old) == IF alloc THEN Zeros ELSE old

\* A variant that zeroes the total only when it is created.
AttentionGradientKept(step, alloc, old, n) ==
  IF alloc THEN ZeroVec(n) ELSE old

\* The total before the loop: created as zeros by the allocation block, and
\* zeroed at cursor 0.
AttentionGradientZeros(step, alloc, old, n) ==
  IF alloc \/ step = 0 THEN ZeroVec(n) ELSE old

\* Entry: the buffers are created on the first call, and at cursor 0 the
\* modules' gradients are bound to the buffer and the total is zeroed.
BackwardBegin ==
  /\ pc = "idle"
  /\ \E i \in InputIds : gy' = GyTerm(i)
  /\ LET alloc == intermediateGradient = <<>> /\ backwardStep = 0
         inter == IF alloc THEN ZeroVec(nR + nA) ELSE intermediateGradient
     IN /\ intermediateGradient' = inter
        /\ actionError' = ActionErrorAlloc(alloc, actionError)
        /\ attentionGradient' =
             AttentionGradientZeros(backwardStep, alloc, attentionGradient,
                                    nR + nA)
        /\ moduleGradient' =
             IF backwardStep = 0 THEN GradientViews(inter) ELSE moduleGradient
  /\ pc' = "Backward"
  /\ op' = "Backward"
  /\ prevOp' = op
  /\ stackAtBegin' = moduleOutputParameter
  /\ bwdLog' = <<>>
  /\ submatLog' = <<>>
  /\ gradientAtBegin' = << <<>>, <<>> >>
  /\ g' = <<GBefore>>
  /\ output' = Empty
  /\ UNCHANGED <<rho, nR, nA, deterministic, forwardStep, backwardStep,
                 moduleOutputParameter, outputParameter, initialInput,
                 recurrentError, actionDelta, rnnDelta,
                 input, fault>>
  /\ UNCHANGED <<fwdTraining, fwdLog>>
  /\ UNCHANGED mpVars

\* The body of an iteration once the snapshots are restored to `outs`.
BackwardBody(outs, stack) ==
  LET rErr == RecurrentError(backwardStep, gy, actionDelta)
      aIn == ActionBackwardInput(backwardStep, rho, initialInput, outs)
      aDelta == ActionBackward(aIn, actionError)
      rDelta == RnnBackward(outs[RnnIdx], rErr)
      grad == StepGradient(backwardStep, outs, rErr, actionError)
  IN /\ recurrentError' = rErr
     /\ outputParameter' = outs
     /\ moduleOutputParameter' = stack
     /\ actionDelta' = aDelta
     /\ rnnDelta' = rDelta
     /\ g' = InputGradient(backwardStep, g, rDelta)
     /\ intermediateGradient' = grad
     /\ moduleGradient' = GradientViews(grad)
     /\ attentionGradient' = VecAdd(attentionGradient, grad)
     /\ backwardStep' = backwardStep + 1
     /\ bwdLog' = Append(bwdLog, [step |-> backwardStep,
                                  recurrentError |-> rErr,
                                  rnn |-> outs[RnnIdx],
                                  action |-> outs[ActionIdx],
                                  actionIn |-> aIn,
                                  actionError |-> actionError,
                                  actionDelta |-> aDelta,
                                  rnnDelta |-> rDelta,
                                  stackBefore |-> Len(moduleOutputParameter)])

\* One iteration of the loop, the stack holding a snapshot per module.
BackwardStep ==
  /\ pc = "Backward"
  /\ backwardStep < rho
  /\ Len(moduleOutputParameter) >= NetworkSize
  /\ LET r == RestoreOutputParameter(moduleOutputParameter, outputParameter)
     IN BackwardBody(r[1], r[2])
  /\ UNCHANGED <<rho, nR, nA, deterministic, forwardStep, initialInput,
                 actionError, pc, input, gy, output, fault>>
  /\ UNCHANGED <<op, prevOp, fwdTraining, stackAtBegin, gradientAtBegin,
                 fwdLog, submatLog>>
  /\ UNCHANGED mpVars

\* A variant that leaves the loop when no snapshot is left.
BackwardStepGuarded ==
  /\ pc = "Backward"
  /\ backwardStep < rho
  /\ Len(moduleOutputParameter) < NetworkSize
  /\ backwardStep' = rho
  /\ UNCHANGED <<rho, nR, nA, deterministic, forwardStep,
                 moduleOutputParameter, outputParameter, initialInput,
                 recurrentError, actionError, actionDelta, rnnDelta,
                 intermediateGradient, attentionGradient, moduleGradient,
                 pc, input, gy, g, output, fault>>
  /\ UNCHANGED raHistory
  /\ UNCHANGED mpVars

\* One iteration of the loop with fewer snapshots than modules: back() and
\* pop_back() of an empty vector are undefined.  Either the call dies there,
\* or it goes on with whatever the read produced.
BackwardStepUnderflow ==
  /\ pc = "Backward"
  /\ backwardStep < rho
  /\ Len(moduleOutputParameter) < NetworkSize
  /\ fault' = "underflow"
  /\ \/ /\ pc' = "crashed"
        /\ bwdLog' = Append(bwdLog, [step |-> backwardStep,
                                     recurrentError |->
                                       RecurrentError(backwardStep, gy, actionDelta),
                                     rnn |-> Garbage,
                                     action |-> Garbage,
                                     actionIn |-> Garbage,
                                     actionError |-> actionError,
                                     actionDelta |-> Garbage,
                                     rnnDelta |-> Garbage,
                                     stackBefore |-> Len(moduleOutputParameter)])
        /\ UNCHANGED <<backwardStep, moduleOutputParameter, outputParameter,
                       recurrentError, actionDelta, rnnDelta,
                       intermediateGradient, attentionGradient, moduleGradient,
                       g>>
     \/ /\ pc' = pc
        /\ BackwardBody(<<Garbage, Garbage>>, <<>>)
  /\ UNCHANGED <<rho, nR, nA, deterministic, forwardStep, initialInput,
                 actionError, input, gy, output>>
  /\ UNCHANGED <<op, prevOp, fwdTraining, stackAtBegin, gradientAtBegin,
                 fwdLog, submatLog>>
  /\ UNCHANGED mpVars

\* A variant that resets the cursor on exit.
BackwardEndReset ==
  /\ pc = "Backward"
  /\ backwardStep >= rho
  /\ pc' = "idle"
  /\ gy' = Empty
  /\ backwardStep' = 0
  /\ UNCHANGED <<rho, nR, nA, deterministic, forwardStep,
                 moduleOutputParameter, outputParameter, initialInput,
                 recurrentError, actionError, actionDelta, rnnDelta,
                 intermediateGradient, attentionGradient, moduleGradient,
                 input, g, output, fault>>
  /\ UNCHANGED raHistory
  /\ UNCHANGED mpVars

\* Exit: the cursor stays where the loop left it.
BackwardEnd ==
  /\ pc = "Backward"
  /\ backwardStep >= rho
  /\ pc' = "idle"
  /\ gy' = Empty
  /\ UNCHANGED <<rho, nR, nA, deterministic, forwardStep, backwardStep,
                 moduleOutputParameter, outputParameter, initialInput,
                 recurrentError, actionError, actionDelta, rnnDelta,
                 intermediateGradient, attentionGradient, moduleGradient,
                 input, g, output, fault>>
  /\ UNCHANGED raHistory
  /\ UNCHANGED mpVars

(***************************************************************************)
(* RecurrentAttention::Gradient.                                           *)
(***************************************************************************)
\* A variant that never advances `offset`.
ActionOffsetZero(nr) == 0

\* `offset` when the action module's block is read.
ActionOffset(nr) == IF nr # 0 THEN 0 + nr ELSE 0

\* The module gradients Gradient assigns, and the sub-range of the total each
\* is assigned from: a module without parameters is skipped.
GradientWrites(nr, na) ==
  (IF nr # 0
     THEN << [module |-> RnnIdx, first |-> 0, last |-> 0 + nr - 1] >>
     ELSE <<>>)
  \o
  (IF na # 0
     THEN << [module |-> ActionIdx, first |-> ActionOffset(nr),
              last |-> ActionOffset(nr) + na - 1] >>
     ELSE <<>>)

\* submat(first, 0, last, 0) lies inside a column of n elements.
InBounds(w, n) == 0 <= w.first /\ w.first <= w.last /\ w.last < n

\* The whole call.  A sub-range outside the total ends the call before
\* anything is assigned.
Gradient ==
  /\ pc = "idle"
  /\ LET writes == GradientWrites(nR, nA)
         ok == \A k \in 1..Len(writes) :
                 InBounds(writes[k], Len(attentionGradient))
         new == [l \in 1..NetworkSize |->
                   IF \E k \in 1..Len(writes) : writes[k].module = l
                     THEN LET w == CHOOSE w \in {writes[k] : k \in 1..Len(writes)} :
                                     w.module = l
                          IN SubVec(attentionGradient, w.first, w.last)
                     ELSE moduleGradient[l]]
     IN /\ submatLog' = writes
        /\ IF ok
             THEN /\ moduleGradient' = new
                  \* the views write through to the combined buffer
                  /\ intermediateGradient' =
                       IF Len(intermediateGradient) = 0 THEN intermediateGradient
                       ELSE [i \in 1..Len(intermediateGradient) |->
                               IF i <= nR THEN new[RnnIdx][i]
                               ELSE new[ActionIdx][i - nR]]
                  /\ UNCHANGED <<pc, fault>>
             ELSE /\ pc' = "crashed"
                  /\ fault' = "bounds"
                  /\ UNCHANGED <<moduleGradient, intermediateGradient>>
  /\ op' = "Gradient"
  /\ prevOp' = op
  /\ gradientAtBegin' = moduleGradient
  /\ g' = <<>>
  /\ output' = Empty
  /\ UNCHANGED <<rho, nR, nA, deterministic, forwardStep, backwardStep,
                 moduleOutputParameter, outputParameter, initialInput,
                 recurrentError, actionError, actionDelta, rnnDelta,
                 attentionGradient, input, gy>>
  /\ UNCHANGED <<fwdTraining, stackAtBegin, fwdLog, bwdLog>>
  /\ UNCHANGED mpVars

(***************************************************************************)
(* A RecurrentAttention layer under any caller.                            *)
(***************************************************************************)
\* No MeanPooling layer exists beside it.
MPOff ==
  /\ kernelWidth = 0
  /\ kernelHeight = 0
  /\ strideWidth = 0
  /\ strideHeight = 0
  /\ floor = TRUE
  /\ inputWidth = 0
  /\ inputHeight = 0
  /\ outputWidth = 0
  /\ outputHeight = 0
  /\ offset = 0
  /\ mpPc = "off"
  /\ mpFault = "none"
  /\ batchSize = 0
  /\ inSize = 0
  /\ outSize = 0
  /\ inputTemp = [rows |-> 0, cols |-> 0, slices |-> 0]
  /\ outputTemp = [rows |-> 0, cols |-> 0, slices |-> 0, mem |-> <<>>]
  /\ gTemp = [rows |-> 0, cols |-> 0, slices |-> 0, mem |-> <<>>]
  /\ mpOutput = [n_rows |-> 0, n_cols |-> 0, mem |-> <<>>]
  /\ mpG = [n_rows |-> 0, n_cols |-> 0, mem |-> <<>>]

Init == RAInit /\ MPOff

Next ==
  \/ SetDeterministic
  \/ ForwardBegin
  \/ ForwardStep
  \/ ForwardEnd
  \/ BackwardBegin
  \/ BackwardStep
  \/ BackwardStepUnderflow
  \/ BackwardEnd
  \/ Gradient

Spec == Init /\ [][Next]_vars

(***************************************************************************)
(* A RecurrentAttention layer under a caller that trains it: Forward and   *)
(* Backward alternate, starting with Forward, in training mode.            *)
(***************************************************************************)
CycleForwardBegin ==
  /\ op \in {"none", "Backward"}
  /\ ~deterministic
  /\ ForwardBegin

CycleBackwardBegin ==
  /\ op = "Forward"
  /\ BackwardBegin

CycleNext ==
  \/ CycleForwardBegin
  \/ ForwardStep
  \/ ForwardEnd
  \/ CycleBackwardBegin
  \/ BackwardStep
  \/ BackwardEnd

SpecCycle == Init /\ [][CycleNext]_vars

(***************************************************************************)
(* Properties of RecurrentAttention.                                       *)
(***************************************************************************)
\* The snapshots a Forward saves, step after step: rnn, then action.
RECURSIVE SnapshotsOf(_)
SnapshotsOf(log) ==
  IF Len(log) = 0 THEN <<>>
  ELSE SnapshotsOf(SubSeq(log, 1, Len(log) - 1))
         \o <<log[Len(log)].rnn, log[Len(log)].action>>

\* Backward was called right after a Forward that ran in training mode.
AfterTrainingForward ==
  op = "Backward" /\ prevOp = "Forward" /\ fwdTraining

\* C1: under alternating Forward;Backward cycles in training mode, begun on
\* the empty stack, the stack holds exactly rho pairs between a Forward and
\* its Backward, every iteration of Backward pops one pair, and the stack is
\* empty after every Backward, which ran exactly rho iterations.
C1_StackBalance ==
  /\ (pc = "idle" /\ op = "Forward") =>
       Len(moduleOutputParameter) = NetworkSize * rho
  /\ pc = "Backward" =>
       Len(moduleOutputParameter) = NetworkSize * (rho - Len(bwdLog))
  /\ (pc = "idle" /\ op = "Backward") =>
       /\ moduleOutputParameter = <<>>
       /\ Len(bwdLog) = rho
       /\ fault = "none"

\* A Forward of a later cycle has pushed its rho pairs; and the Backward
\* after it has popped them.
C1_Witness ==
  /\ pc = "idle"
  /\ op = "Forward"
  /\ prevOp = "Backward"
  /\ rho = MaxRho
  /\ Len(bwdLog) = 0
  /\ rnnDelta # Empty
  /\ stackAtBegin = <<>>
  /\ Len(moduleOutputParameter) = NetworkSize * MaxRho

\* C2: gy is the recurrent error of the first iteration (backwardStep = 0)
\* and of no other; the recurrent error of iteration k > 0 is the action
\* delta of iteration k - 1; and after a training Forward the first iteration
\* replays the last forward step, rho - 1.
C2_RecurrentErrorSource ==
  pc = "Backward" =>
    \A k \in 1..Len(bwdLog) :
      /\ bwdLog[k].step = k - 1
      /\ (k = 1 => bwdLog[k].recurrentError = gy)
      /\ (k > 1 => /\ bwdLog[k].recurrentError = bwdLog[k - 1].actionDelta
                   /\ bwdLog[k].recurrentError # gy)
      /\ (k = 1 /\ AfterTrainingForward =>
            /\ bwdLog[k].rnn = fwdLog[rho].rnn
            /\ bwdLog[k].action = fwdLog[rho].action)

C2_Witness ==
  /\ pc = "Backward"
  /\ AfterTrainingForward
  /\ rho = MaxRho
  /\ Len(bwdLog) = rho
  /\ fault = "none"
  /\ bwdLog[1].recurrentError = gy
  /\ bwdLog[rho].recurrentError = bwdLog[rho - 1].actionDelta

\* C3: in a Backward right after a training Forward, iteration k (from 0)
\* restores the pair saved at forward step rho - 1 - k: the recurrent
\* module's snapshot to the recurrent module, the action module's to the
\* action module.
C3_ReplayLastInFirstOut ==
  AfterTrainingForward =>
    \A k \in 1..Len(bwdLog) :
      /\ bwdLog[k].rnn = fwdLog[rho - (k - 1)].rnn
      /\ bwdLog[k].action = fwdLog[rho - (k - 1)].action
      /\ fwdLog[rho - (k - 1)].step = rho - 1 - (k - 1)

C3_Witness ==
  /\ AfterTrainingForward
  /\ pc = "idle"
  /\ rho = MaxRho
  /\ Len(bwdLog) = rho
  /\ bwdLog[1].rnn = fwdLog[rho].rnn
  /\ bwdLog[rho].action = fwdLog[1].action
  /\ fwdLog[1].rnn # fwdLog[rho].rnn
  /\ fwdLog[1].rnn # fwdLog[1].action

\* C4: during and after a Forward the stack is what it was when the call
\* began, followed in training mode by one pair (rnn, action) per step done,
\* rho pairs when the call is over; in deterministic mode by nothing.
C4_ForwardPushes ==
  (op = "Forward" /\ pc \in {"Forward", "idle"}) =>
    /\ Len(fwdLog) = (IF pc = "idle" THEN rho ELSE forwardStep)
    /\ moduleOutputParameter =
         (IF fwdTraining THEN stackAtBegin \o SnapshotsOf(fwdLog)
          ELSE stackAtBegin)

\* A deterministic Forward has ended on a stack that was not empty.
C4_WitnessDeterministic ==
  /\ op = "Forward"
  /\ pc = "idle"
  /\ ~fwdTraining
  /\ rho > 1
  /\ stackAtBegin # <<>>
  /\ moduleOutputParameter = stackAtBegin

\* Two Backward calls in a row: the one started last, the other before it.
SecondBackward == op = "Backward" /\ prevOp = "Backward"

\* C5 as stated: a Backward called right after a Backward underflows the
\* snapshot stack or leaves it other than it found it.
C5_SecondBackwardCorrupts ==
  (pc = "idle" /\ SecondBackward) =>
    (fault = "underflow" \/ moduleOutputParameter # stackAtBegin)

\* C5, amended: a Backward called right after a Backward finds the cursor
\* at rho, runs no iteration, pops nothing, leaves the stack as it found it
\* and does not write g.
C5_SecondBackwardDoesNothing ==
  (pc \in {"Backward", "idle"} /\ SecondBackward) =>
    /\ backwardStep = rho
    /\ Len(bwdLog) = 0
    /\ moduleOutputParameter = stackAtBegin
    /\ g = <<GBefore>>

\* Forward, Backward, Backward: the second Backward is over.
C5_Witness ==
  /\ pc = "idle"
  /\ SecondBackward
  /\ fwdTraining
  /\ Len(fwdLog) = rho
  /\ fault = "none"
  /\ moduleOutputParameter = <<>>
  /\ rnnDelta # Empty

\* Backward was called on the empty stack, on a new layer or right after a
\* deterministic Forward.
NoSnapshotCall ==
  /\ op = "Backward"
  /\ stackAtBegin = <<>>
  /\ \/ prevOp = "none"
     \/ prevOp = "Forward" /\ ~fwdTraining

\* C6: the first thing such a Backward does is iteration 0, which pops the
\* empty stack; nothing rejects the call before.
C6_UnguardedUnderflow ==
  [][ (pc = "Backward" /\ NoSnapshotCall /\ Len(bwdLog) = 0) =>
        /\ fault' = "underflow"
        /\ Len(bwdLog') = 1
        /\ bwdLog'[1].step = 0
        /\ bwdLog'[1].stackBefore = 0 ]_vars

C6_Witness ==
  /\ NoSnapshotCall
  /\ prevOp = "Forward"
  /\ Len(fwdLog) = rho
  /\ fault = "underflow"
  /\ Len(bwdLog) = 1
  /\ bwdLog[1].stackBefore = 0

\* C7 as stated: between operations both cursors are in [0, rho) (in a run
\* in which no Backward has popped the empty stack).
C7_CursorsBelowRho ==
  (pc = "idle" /\ fault = "none") =>
    /\ forwardStep \in 0..(rho - 1)
    /\ backwardStep \in 0..(rho - 1)

\* C7, amended: between operations, as long as no Backward has popped the
\* empty stack, forwardStep is in [0, rho) and backwardStep is in [0, rho];
\* it is rho after a Backward.
C7_CursorRange ==
  (pc = "idle" /\ fault = "none") =>
    /\ forwardStep \in 0..(rho - 1)
    /\ backwardStep \in 0..rho
    /\ (op = "Backward" => backwardStep = rho)

C7_Witness ==
  /\ pc = "idle"
  /\ fault = "none"
  /\ op = "Backward"
  /\ prevOp = "Forward"
  /\ Len(bwdLog) = rho
  /\ forwardStep = 0
  /\ backwardStep = rho

\* C8: when a Forward is over both cursors are 0, and a Backward called
\* right after a Forward runs iterations 0 .. rho-1, rho of them.
C8_ForwardResetsCursors ==
  /\ (pc = "idle" /\ op = "Forward") =>
       (forwardStep = 0 /\ backwardStep = 0)
  /\ (pc = "idle" /\ op = "Backward" /\ prevOp = "Forward") =>
       /\ Len(bwdLog) = rho
       /\ \A k \in 1..rho : bwdLog[k].step = k - 1

\* A Forward has ended after a Backward had left its cursor at rho.
C8_Witness ==
  /\ pc = "idle"
  /\ op = "Forward"
  /\ prevOp = "Backward"
  /\ rnnDelta # Empty
  /\ rho = MaxRho
  /\ forwardStep = 0
  /\ backwardStep = 0

\* C9: a Gradient that returns has set the recurrent module's gradient to
\* elements [0, nR) of the total and the action module's to elements
\* [nR, nR + nA); a module without parameters keeps the gradient it had; and
\* no sub-range Gradient forms ends below its start.
C9_GradientSplit ==
  /\ (pc = "idle" /\ op = "Gradient") =>
       /\ moduleGradient[RnnIdx] =
            (IF nR # 0 THEN [i \in 1..nR |-> attentionGradient[i]]
             ELSE gradientAtBegin[RnnIdx])
       /\ moduleGradient[ActionIdx] =
            (IF nA # 0 THEN [i \in 1..nA |-> attentionGradient[nR + i]]
             ELSE gradientAtBegin[ActionIdx])
  /\ op = "Gradient" =>
       /\ Len(submatLog) = (IF nR # 0 THEN 1 ELSE 0) + (IF nA # 0 THEN 1 ELSE 0)
       /\ \A k \in 1..Len(submatLog) : submatLog[k].first <= submatLog[k].last

\* Gradient has split a total whose elements differ.
C9_Witness ==
  /\ pc = "idle"
  /\ op = "Gradient"
  /\ prevOp = "Backward"
  /\ nR = 1
  /\ nA = 1
  /\ attentionGradient[1] # attentionGradient[2]
  /\ Len(attentionGradient[2]) = rho
  /\ moduleGradient[ActionIdx] = <<attentionGradient[2]>>
  /\ gradientAtBegin[ActionIdx] # moduleGradient[ActionIdx]

\* C15: in every step t of Forward the action module runs first, on the
\* initial action input at t = 0 and on the recurrent module's output of step
\* t-1 afterwards; the glimpse is built from the raw input and the action
\* output of the same step; the recurrent module runs on that glimpse; the
\* pair saved at step t holds the two outputs of step t; and Forward returns
\* the recurrent module's output of step rho-1.
C15_ForwardStepOrder ==
  /\ \E i \in InputIds :
       \A k \in 1..Len(fwdLog) :
         /\ fwdLog[k].step = k - 1
         /\ fwdLog[k].actionIn =
              (IF k = 1 THEN initialInput ELSE fwdLog[k - 1].rnn)
         /\ fwdLog[k].action = ActionForward(fwdLog[k].actionIn)
         /\ fwdLog[k].glimpse = GlimpseInput(InputTerm(i), fwdLog[k].action)
         /\ pc = "Forward" => InputTerm(i) = input
         /\ fwdLog[k].rnn = RnnForward(fwdLog[k].glimpse)
  /\ (op = "Forward" /\ fwdTraining) =>
       moduleOutputParameter = stackAtBegin \o SnapshotsOf(fwdLog)
  /\ (op = "Forward" /\ pc = "idle") =>
       /\ Len(fwdLog) = rho
       /\ output = fwdLog[rho].rnn

\* A training Forward of three steps has returned.
C15_Witness ==
  /\ op = "Forward"
  /\ pc = "idle"
  /\ fwdTraining
  /\ Len(fwdLog) = 3
  /\ fwdLog[1].actionIn = Zeros
  /\ fwdLog[3].actionIn = fwdLog[2].rnn
  /\ output = fwdLog[3].rnn
  /\ output # fwdLog[2].rnn

\* C16: every run of the action module's Backward is given the action
\* module's own restored output in the iteration backwardStep = rho-1 and the
\* initial action input in every earlier iteration, and the action-error
\* buffer as the error; with rho = 1 the only iteration uses the own output.
C16_ActionBackwardInput ==
  \A k \in 1..Len(bwdLog) :
    bwdLog[k].actionDelta # Garbage =>
      /\ bwdLog[k].actionIn =
           (IF bwdLog[k].step = rho - 1 THEN bwdLog[k].action
            ELSE initialInput)
      /\ bwdLog[k].actionDelta =
           ActionBackward(bwdLog[k].actionIn, actionError)
      /\ rho = 1 => bwdLog[k].actionIn = bwdLog[k].action

\* A Backward of several iterations has used the initial input first and the
\* restored action output last.
C16_Witness ==
  /\ op = "Backward"
  /\ pc = "idle"
  /\ fault = "none"
  /\ rho >= 2
  /\ Len(bwdLog) = rho
  /\ bwdLog[1].actionIn = initialInput
  /\ bwdLog[rho].actionIn = bwdLog[rho].action
  /\ bwdLog[rho].action # initialInput

\* C17: while Backward runs and after it has run its rho iterations, g is the
\* sum of column 1 of the recurrent module's delta of every iteration so far,
\* one summand per iteration, and holds nothing of what it held before the
\* call.
C17_InputGradientSum ==
  /\ (op = "Backward" /\ pc \in {"Backward", "idle"} /\ Len(bwdLog) >= 1) =>
       /\ g = [k \in 1..Len(bwdLog) |-> Col1(bwdLog[k].rnnDelta)]
       /\ \A k \in 1..Len(g) : g[k] # GBefore
  /\ (op = "Backward" /\ pc = "idle" /\ Len(bwdLog) = rho) => Len(g) = rho

\* A Backward of several iterations has returned its sum.
C17_Witness ==
  /\ op = "Backward"
  /\ pc = "idle"
  /\ fault = "none"
  /\ rho >= 2
  /\ Len(bwdLog) = rho
  /\ Len(g) = rho
  /\ g[1] # g[2]

\* The contribution of one logged iteration to the total.
StepContribution(e) ==
  StepGradient(e.step, <<e.rnn, e.action>>, e.recurrentError, e.actionError)

\* The sum of the contributions of the logged iterations, from zero.
RECURSIVE TotalOf(_)
TotalOf(log) ==
  IF Len(log) = 0 THEN ZeroVec(nR + nA)
  ELSE VecAdd(TotalOf(SubSeq(log, 1, Len(log) - 1)),
              StepContribution(log[Len(log)]))

\* C18: a Backward that began at cursor 0 holds, after each of its
\* iterations, a total that is the sum of the contributions of its own
\* iterations so far, from zero; and the total a Gradient consumes after a
\* Backward of rho iterations is the sum of the rho contributions of that
\* Backward only.
C18_TotalPerCycle ==
  /\ (op = "Backward" /\ pc \in {"Backward", "idle"}
        /\ Len(bwdLog) = backwardStep) =>
       attentionGradient = TotalOf(bwdLog)
  /\ (op = "Gradient" /\ pc = "idle" /\ Len(bwdLog) = rho) =>
       attentionGradient = TotalOf(bwdLog)

\* Gradient has consumed the total of a Backward of several iterations.
C18_Witness ==
  /\ op = "Gradient"
  /\ prevOp = "Backward"
  /\ pc = "idle"
  /\ fault = "none"
  /\ rho >= 2
  /\ Len(bwdLog) = rho
  /\ nR = 1
  /\ nA = 1
  /\ Len(attentionGradient[1]) = rho
  /\ Len(attentionGradient[2]) = rho

\* C20: the action-error buffer is either not yet created or all zeros, it
\* is zeros whenever Backward runs, and the error every iteration passed to
\* the action module's Backward is zeros, whatever gy and the recurrent
\* module's delta were.
C20_ActionErrorZeros ==
  /\ actionError \in {Empty, Zeros}
  /\ pc = "Backward" => actionError = Zeros
  /\ \A k \in 1..Len(bwdLog) : bwdLog[k].actionError = Zeros

\* An iteration whose recurrent error is a delta has passed zeros to the
\* action module.
C20_Witness ==
  /\ pc = "Backward"
  /\ fault = "none"
  /\ Len(bwdLog) = 2
  /\ bwdLog[1].recurrentError = GyTerm(2)
  /\ bwdLog[2].recurrentError = bwdLog[1].actionDelta
  /\ bwdLog[2].actionError = Zeros
  /\ bwdLog[2].actionDelta # Zeros

(***************************************************************************)
(* MeanPooling.                                                            *)
(***************************************************************************)
\* No RecurrentAttention layer exists beside it.
RAOff ==
  /\ rho = 0
  /\ nR = 0
  /\ nA = 0
  /\ deterministic = FALSE
  /\ forwardStep = 0
  /\ backwardStep = 0
  /\ moduleOutputParameter = <<>>
  /\ outputParameter = <<Empty, Empty>>
  /\ initialInput = Empty
  /\ recurrentError = Empty
  /\ actionError = Empty
  /\ actionDelta = Empty
  /\ rnnDelta = Empty
  /\ intermediateGradient = <<>>
  /\ attentionGradient = <<>>
  /\ moduleGradient = << <<>>, <<>> >>
  /\ pc = "off"
  /\ input = Empty
  /\ gy = Empty
  /\ g = <<>>
  /\ output = Empty
  /\ fault = "none"
  /\ op = "none"
  /\ prevOp = "none"
  /\ fwdTraining = FALSE
  /\ stackAtBegin = <<>>
  /\ gradientAtBegin = << <<>>, <<>> >>
  /\ fwdLog = <<>>
  /\ bwdLog = <<>>
  /\ submatLog = <<>>

\* A cube is its shape and its memory, column after column, slice after
\* slice; a matrix likewise.
EmptyCube == [rows |-> 0, cols |-> 0, slices |-> 0, mem |-> <<>>]
EmptyMat == [n_rows |-> 0, n_cols |-> 0, mem |-> <<>>]

\* Construction: kernel, stride and rounding mode are given, the sizes are 0.
MPInit ==
  /\ kernelWidth \in 1..MaxKernel
  /\ kernelHeight \in 1..MaxKernel
  /\ strideWidth \in 1..MaxStride
  /\ strideHeight \in 1..MaxStride
  /\ floor \in BOOLEAN
  /\ inputWidth = 0
  /\ inputHeight = 0
  /\ outputWidth = 0
  /\ outputHeight = 0
  /\ offset = 0
  /\ mpPc = "idle"
  /\ mpFault = "none"
  /\ batchSize = 0
  /\ inSize = 0
  /\ outSize = 0
  /\ inputTemp = [rows |-> 0, cols |-> 0, slices |-> 0]
  /\ outputTemp = EmptyCube
  /\ gTemp = EmptyCube
  /\ mpOutput = EmptyMat
  /\ mpG = EmptyMat

\* The InputWidth() and InputHeight() accessors: the network tells the layer
\* the size of its input before it runs it.
SetInputDimensions ==
  /\ mpPc = "idle"
  /\ inputWidth' \in 1..MaxInput
  /\ inputHeight' \in 1..MaxInput
  /\ mpPc' = "idle"
  /\ UNCHANGED <<kernelWidth, kernelHeight, strideWidth, strideHeight, floor,
                 outputWidth, outputHeight, offset, mpFault>>
  /\ UNCHANGED mpData
  /\ UNCHANGED <<raVars, raHistory>>

\* The quotient a / s of two doubles holding integers, as a fraction; the
\* sizes are far too small for a double to round any of these values.
Quotient(a, s) == [num |-> a, den |-> s]
PlusOne(q) == [num |-> q.num + q.den, den |-> q.den]
StdFloor(q) == q.num \div q.den
StdCeil(q) == -((-q.num) \div q.den)

\* A variant that rounds up in both modes.
OutputSizeCeilOnly(in, k, s, fl) ==
  StdCeil(PlusOne(Quotient(in - k, s)))

\* A variant that rounds down in both modes.
OutputSizeFloorOnly(in, k, s, fl) ==
  StdFloor(PlusOne(Quotient(in - k, s)))

\* The output width or height, before it is stored in a size_t.
OutputSize(in, k, s, fl) ==
  IF fl THEN StdFloor(PlusOne(Quotient(in - k, s)))
  ELSE StdCeil(PlusOne(Quotient(in - k, s)))

\* The memory position of element (r, c, s) of a cube of `rows` x `cols`
\* slices.
CubeIndex(rows, cols, r, c, s) == r + c * rows + s * rows * cols

\* The element of a cube that lies at memory position p.
RowOf(cube, p) == p % cube.rows
ColOf(cube, p) == (p % (cube.rows * cube.cols)) \div cube.rows
SliceOf(cube, p) == p \div (cube.rows * cube.cols)

\* A variant that takes the input's memory row after row.
InputTempViewByRows(in, r, c, s) == CubeIndex(in.cols, in.rows, c, r, s)

\* The position in the input's memory that inputTemp shows at (r, c, s).
InputTempView(in, r, c, s) == CubeIndex(in.rows, in.cols, r, c, s)

\* arma::zeros<Cube>: every element is `zero`.
ZerosCube(rows, cols, slices, zero) ==
  [rows |-> rows, cols |-> cols, slices |-> slices,
   mem |-> [p \in 1..(rows * cols * slices) |-> zero]]

\* An element of the output is a mean: the input positions summed, and the
\* divisor.  The mean of nothing over 1 is zero.
ZeroMean == [cells |-> {}, den |-> 1]

\* The input coordinates along one axis that window i covers, inside 0..n-1.
WindowRange(i, k, s, n) == {x \in 0..(n - 1) : i * s <= x /\ x < i * s + k}

\* Pooling, for one element of the output: the mean of the cells of the
\* window at (i * strideWidth, j * strideHeight) that lie inside the input.
Pooling(in, sl, i, j) ==
  LET cells == {InputTempView(in, r, c, sl) :
                  r \in WindowRange(i, kernelWidth, strideWidth, in.rows),
                  c \in WindowRange(j, kernelHeight, strideHeight, in.cols)}
  IN [cells |-> cells, den |-> Cardinality(cells)]

\* A variant that pools the first slice only.
PoolSlicesFirstOnly(in, out) ==
  [out EXCEPT !.mem =
     [p \in DOMAIN out.mem |->
        IF SliceOf(out, p - 1) < 1
          THEN Pooling(in, SliceOf(out, p - 1), RowOf(out, p - 1),
                       ColOf(out, p - 1))
          ELSE out.mem[p]]]

\* The loop that pools every slice of inputTemp into the same slice of
\* outputTemp.
PoolSlices(in, out) ==
  [out EXCEPT !.mem =
     [p \in DOMAIN out.mem |->
        IF SliceOf(out, p - 1) < in.slices
          THEN Pooling(in, SliceOf(out, p - 1), RowOf(out, p - 1),
                       ColOf(out, p - 1))
          ELSE out.mem[p]]]

\* What Forward computes and stores once the output size is w x h, for an
\* input of n_elem elements in n_cols columns.
ForwardData(n_elem, n_cols, w, h) ==
  LET ins == n_elem \div (inputWidth * inputHeight * n_cols)
      in == [rows |-> inputWidth, cols |-> inputHeight,
             slices |-> n_cols * ins]
      out == PoolSlices(in, ZerosCube(w, h, n_cols * ins, ZeroMean))
  IN /\ batchSize' = n_cols
     /\ inSize' = ins
     /\ inputTemp' = in
     /\ outputTemp' = out
     /\ mpOutput' = [n_rows |-> Len(out.mem) \div n_cols, n_cols |-> n_cols,
                     mem |-> out.mem]
     /\ outputWidth' = out.rows
     /\ outputHeight' = out.cols
     /\ outSize' = n_cols * ins
     /\ mpG' = EmptyMat
     /\ UNCHANGED gTemp

\* Forward.  The input has batchSize columns, each holding the channels of
\* one point, inputWidth * inputHeight elements a channel.  A layer that has
\* run into undefined behaviour is not followed further.
MPForward ==
  /\ mpPc \in {"idle", "forwarded", "backwarded"}
  /\ mpFault = "none"
  /\ \E b \in BatchSizes, ch \in Channels :
       LET n_elem == inputWidth * inputHeight * ch * b
           w == OutputSize(inputWidth, kernelWidth, strideWidth, floor)
           h == OutputSize(inputHeight, kernelHeight, strideHeight, floor)
       IN \/ \* inSize = n_elem / (inputWidth * inputHeight * batchSize)
             /\ inputWidth * inputHeight = 0
             /\ mpFault' = "divide"
             /\ mpPc' = "crashed"
             /\ batchSize' = b
             /\ UNCHANGED <<outputWidth, outputHeight, offset>>
             /\ UNCHANGED <<inSize, outSize, inputTemp, outputTemp, gTemp,
                            mpOutput, mpG>>
          \/ /\ inputWidth * inputHeight # 0
             /\ w >= 0
             /\ h >= 0
             /\ ForwardData(n_elem, b, w, h)
             /\ offset' = (IF floor THEN 0 ELSE 1)
             /\ mpPc' = "forwarded"
             /\ UNCHANGED mpFault
          \/ \* a negative double stored in a size_t is undefined: any size
             /\ inputWidth * inputHeight # 0
             /\ w < 0 \/ h < 0
             /\ \E gw \in (IF w < 0 THEN 0..MaxInput ELSE {w}),
                   gh \in (IF h < 0 THEN 0..MaxInput ELSE {h}) :
                  ForwardData(n_elem, b, gw, gh)
             /\ offset' = (IF floor THEN 0 ELSE 1)
             /\ mpFault' = "convert"
             /\ mpPc' \in {"forwarded", "crashed"}
  /\ UNCHANGED <<kernelWidth, kernelHeight, strideWidth, strideHeight, floor,
                 inputWidth, inputHeight>>
  /\ UNCHANGED <<raVars, raHistory>>

\* The position in gy's memory that mappedError shows at (i, j, s).
MappedError(err, i, j, s) == CubeIndex(err.rows, err.cols, i, j, s)

\* An element of the gradient is a sum of shares, a bag: the position in gy
\* a share comes from, and the divisor.  The empty bag is zero.
ZeroSum == EmptyBag

\* A variant that keeps a gTemp of the right shape as it is.
GTempKept(old, in) ==
  IF old.rows = in.rows /\ old.cols = in.cols /\ old.slices = in.slices
    THEN old
    ELSE ZerosCube(in.rows, in.cols, in.slices, ZeroSum)

\* gTemp before the loop: zeros in the shape of inputTemp.
GTempZeros(old, in) == ZerosCube(in.rows, in.cols, in.slices, ZeroSum)

\* Unpooling of the windows 0 .. n-1 of slice sl: every cell of a window that
\* lies inside the input is added the window's error divided by the number
\* of such cells.
RECURSIVE Unpooling(_, _, _, _, _)
Unpooling(in, err, gt, sl, n) ==
  IF n = 0 THEN gt
  ELSE LET prev == Unpooling(in, err, gt, sl, n - 1)
           i == (n - 1) % err.rows
           j == (n - 1) \div err.rows
           cells == {CubeIndex(in.rows, in.cols, r, c, sl) :
                       r \in WindowRange(i, kernelWidth, strideWidth, in.rows),
                       c \in WindowRange(j, kernelHeight, strideHeight, in.cols)}
           share == [src |-> MappedError(err, i, j, sl),
                     den |-> Cardinality(cells)]
       IN [prev EXCEPT !.mem =
             [p \in DOMAIN prev.mem |->
                IF (p - 1) \in cells THEN prev.mem[p] (+) SetToBag({share})
                ELSE prev.mem[p]]]

\* The loop that unpools the slices 0 .. n-1 of mappedError into gTemp.
RECURSIVE UnpoolSlices(_, _, _, _)
UnpoolSlices(in, err, gt, n) ==
  IF n = 0 THEN gt
  ELSE Unpooling(in, err, UnpoolSlices(in, err, gt, n - 1), n - 1,
                 err.rows * err.cols)

\* Backward, called after a Forward with a gy in the shape of Forward's
\* output.
MPBackward ==
  /\ mpPc \in {"forwarded", "backwarded"}
  /\ mpFault = "none"
  /\ LET err == [rows |-> outputWidth, cols |-> outputHeight,
                 slices |-> outSize]
         gt == UnpoolSlices(inputTemp, err, GTempZeros(gTemp, inputTemp),
                            err.slices)
     IN /\ gTemp' = gt
        /\ mpG' = [n_rows |-> Len(gt.mem) \div batchSize,
                   n_cols |-> batchSize, mem |-> gt.mem]
  /\ mpPc' = "backwarded"
  /\ UNCHANGED <<kernelWidth, kernelHeight, strideWidth, strideHeight, floor,
                 inputWidth, inputHeight, outputWidth, outputHeight, offset,
                 mpFault>>
  /\ UNCHANGED <<batchSize, inSize, outSize, inputTemp, outputTemp, mpOutput>>
  /\ UNCHANGED <<raVars, raHistory>>

MPNext ==
  \/ SetInputDimensions
  \/ MPForward
  \/ MPBackward

InitMP == MPInit /\ RAOff

SpecMP == InitMP /\ [][MPNext]_vars

(***************************************************************************)
(* Properties of MeanPooling.                                              *)
(***************************************************************************)
\* n is the real number (in - k) / s + 1 rounded down, or rounded up.
IsFloorOfSize(n, in, k, s) ==
  n * s <= in - k + s /\ in - k + s < (n + 1) * s

IsCeilOfSize(n, in, k, s) ==
  (n - 1) * s < in - k + s /\ in - k + s <= n * s

\* C10: after Forward the output width is (inputWidth - kernelWidth) /
\* strideWidth + 1 rounded down in floor mode and rounded up in ceil mode,
\* and so is the height; a 5x5 input under a 2x2 kernel with stride 2x2 gives
\* 2x2 in floor mode and 3x3 in ceil mode.
C10_OutputSize ==
  (mpPc = "forwarded" /\ mpFault = "none") =>
    /\ floor =>
         /\ IsFloorOfSize(outputWidth, inputWidth, kernelWidth, strideWidth)
         /\ IsFloorOfSize(outputHeight, inputHeight, kernelHeight, strideHeight)
    /\ ~floor =>
         /\ IsCeilOfSize(outputWidth, inputWidth, kernelWidth, strideWidth)
         /\ IsCeilOfSize(outputHeight, inputHeight, kernelHeight, strideHeight)
    /\ ( /\ inputWidth = 5 /\ inputHeight = 5
         /\ kernelWidth = 2 /\ kernelHeight = 2
         /\ strideWidth = 2 /\ strideHeight = 2 ) =>
         /\ outputWidth = (IF floor THEN 2 ELSE 3)
         /\ outputHeight = (IF floor THEN 2 ELSE 3)

C10_Witness ==
  /\ mpPc = "forwarded"
  /\ mpFault = "none"
  /\ ~floor
  /\ inputWidth = 5 /\ inputHeight = 5
  /\ kernelWidth = 2 /\ kernelHeight = 2
  /\ strideWidth = 2 /\ strideHeight = 2
  /\ outputWidth = 3 /\ outputHeight = 3

\* The input is at least as large as the kernel.
KernelFits == inputWidth >= kernelWidth /\ inputHeight >= kernelHeight

\* C11: in floor mode, the input being at least as large as the kernel, the
\* last window Forward places ends inside the input, in width and in height.
C11_FloorWindowsInside ==
  (mpPc = "forwarded" /\ mpFault = "none" /\ floor /\ KernelFits) =>
    /\ outputWidth >= 1
    /\ outputHeight >= 1
    /\ (outputWidth - 1) * strideWidth + kernelWidth <= inputWidth
    /\ (outputHeight - 1) * strideHeight + kernelHeight <= inputHeight

\* Floor mode has dropped a window that would have passed the far edge.
C11_Witness ==
  /\ mpPc = "forwarded"
  /\ mpFault = "none"
  /\ floor
  /\ inputWidth = 5 /\ inputHeight = 4
  /\ kernelWidth = 2 /\ kernelHeight = 3
  /\ strideWidth = 2 /\ strideHeight = 2
  /\ outputWidth = 2 /\ outputHeight = 1

\* C19 as stated: in ceil mode, the input being at least as large as the
\* kernel, every window Forward places starts inside the input, in width and
\* in height.
C19_CeilWindowsStartInside ==
  (mpPc = "forwarded" /\ mpFault = "none" /\ ~floor /\ KernelFits) =>
    /\ (outputWidth - 1) * strideWidth < inputWidth
    /\ (outputHeight - 1) * strideHeight < inputHeight

\* The number of coordinates along one axis that window i covers inside an
\* input of n.
CountIn(i, k, s, n) ==
  IF i * s + k <= n THEN k ELSE IF i * s < n THEN n - i * s ELSE 0

\* Forward or Backward has returned, and nothing undefined has happened.
Pooled == mpPc \in {"forwarded", "backwarded"} /\ mpFault = "none"

\* C12: in ceil mode every output cell whose window has a cell inside the
\* input is the mean of exactly the in-bounds cells of its window, divided by
\* their number: kernelWidth * kernelHeight for a window inside the input,
\* less for a trailing window that passes the far edge.
C12_CeilClippedMean ==
  (Pooled /\ ~floor) =>
    /\ outputTemp.rows = outputWidth
    /\ outputTemp.cols = outputHeight
    /\ outputTemp.slices = batchSize * inSize
    /\ \A sl \in 0..(outputTemp.slices - 1) :
         \A i \in 0..(outputWidth - 1), j \in 0..(outputHeight - 1) :
           LET v == outputTemp.mem[CubeIndex(outputWidth, outputHeight,
                                             i, j, sl) + 1]
               nw == CountIn(i, kernelWidth, strideWidth, inputWidth)
               nh == CountIn(j, kernelHeight, strideHeight, inputHeight)
               inside == /\ i * strideWidth + kernelWidth <= inputWidth
                         /\ j * strideHeight + kernelHeight <= inputHeight
           IN nw * nh > 0 =>
                /\ v.cells =
                     {CubeIndex(inputWidth, inputHeight, r, c, sl) :
                        r \in (i * strideWidth)..(i * strideWidth + nw - 1),
                        c \in (j * strideHeight)..(j * strideHeight + nh - 1)}
                /\ v.den = nw * nh
                /\ inside => v.den = kernelWidth * kernelHeight
                /\ ~inside => v.den < kernelWidth * kernelHeight

\* Ceil mode has pooled two slices of 5x5 under a 2x2 kernel of stride 2x2:
\* the corner window holds one cell, an edge window two, an inner one four.
C12_Witness ==
  /\ mpPc = "forwarded" /\ mpFault = "none" /\ ~floor
  /\ inputWidth = 5 /\ inputHeight = 5
  /\ kernelWidth = 2 /\ kernelHeight = 2
  /\ strideWidth = 2 /\ strideHeight = 2
  /\ outputWidth = 3 /\ outputHeight = 3
  /\ batchSize = 2
  /\ outputTemp.mem[CubeIndex(3, 3, 0, 0, 1) + 1].den = 4
  /\ outputTemp.mem[CubeIndex(3, 3, 2, 0, 1) + 1].den = 2
  /\ outputTemp.mem[CubeIndex(3, 3, 2, 2, 1) + 1] =
       [cells |-> {CubeIndex(5, 5, 4, 4, 1)}, den |-> 1]

\* The windows along one axis, of n, that cover coordinate x.
Covering(x, k, s, n) == {i \in 0..(n - 1) : i * s <= x /\ x < i * s + k}

\* The value of a sum of shares when every element of gy is 1, times scale
\* (a multiple of every divisor in the sum).
RECURSIVE SumOver(_, _, _)
SumOver(S, bag, scale) ==
  IF S = {} THEN 0
  ELSE LET e == CHOOSE x \in S : TRUE
       IN CopiesIn(e, bag) * (scale \div e.den) + SumOver(S \ {e}, bag, scale)

OnesValue(bag, scale) == SumOver(BagToSet(bag), bag, scale)

\* C13: after Backward every input cell's gradient is the sum, over the
\* windows that cover it, of the window's output gradient divided by the
\* window's number of in-bounds cells, once per window, and zero for a cell no
\* window covers; g is gTemp's memory in batchSize columns.  For a 4x4 input,
\* kernel 2x2, stride 2x2, floor mode: with an all-ones input every output
\* cell is 1 (2x2 cells), and with an all-ones gy every cell of g is 1/4.
C13_BackwardAdjoint ==
  /\ (mpPc = "backwarded" /\ mpFault = "none") =>
       /\ gTemp.rows = inputWidth
       /\ gTemp.cols = inputHeight
       /\ gTemp.slices = batchSize * inSize
       /\ mpG = [n_rows |-> inputWidth * inputHeight * inSize,
                 n_cols |-> batchSize, mem |-> gTemp.mem]
       /\ \A sl \in 0..(gTemp.slices - 1) :
            \A r \in 0..(inputWidth - 1), c \in 0..(inputHeight - 1) :
              gTemp.mem[CubeIndex(inputWidth, inputHeight, r, c, sl) + 1] =
                SetToBag(
                  {[src |-> CubeIndex(outputWidth, outputHeight, i, j, sl),
                    den |-> CountIn(i, kernelWidth, strideWidth, inputWidth)
                            * CountIn(j, kernelHeight, strideHeight,
                                      inputHeight)] :
                     i \in Covering(r, kernelWidth, strideWidth, outputWidth),
                     j \in Covering(c, kernelHeight, strideHeight,
                                    outputHeight)})
  /\ (Pooled /\ floor /\ inputWidth = 4 /\ inputHeight = 4
        /\ kernelWidth = 2 /\ kernelHeight = 2
        /\ strideWidth = 2 /\ strideHeight = 2) =>
       /\ outputWidth = 2
       /\ outputHeight = 2
       /\ Len(mpOutput.mem) = 2 * 2 * inSize * batchSize
       /\ \A p \in DOMAIN mpOutput.mem :
            /\ mpOutput.mem[p].den > 0
            /\ Cardinality(mpOutput.mem[p].cells) = mpOutput.mem[p].den
       /\ mpPc = "backwarded" =>
            /\ Len(mpG.mem) = 4 * 4 * inSize * batchSize
            /\ \A p \in DOMAIN mpG.mem : OnesValue(mpG.mem[p], 4) = 1

\* Backward has returned; along the width the windows
\* overlap, so a cell holds two shares, and along the height they leave a row
\* out, whose cells hold none.
C13_Witness ==
  /\ mpPc = "backwarded" /\ mpFault = "none" /\ floor
  /\ inputWidth = 3 /\ inputHeight = 3
  /\ kernelWidth = 2 /\ kernelHeight = 1
  /\ strideWidth = 1 /\ strideHeight = 2
  /\ outputWidth = 2 /\ outputHeight = 2
  /\ batchSize = 2
  /\ BagCardinality(gTemp.mem[CubeIndex(3, 3, 1, 0, 1) + 1]) = 2
  /\ gTemp.mem[CubeIndex(3, 3, 0, 1, 1) + 1] = EmptyBag
  /\ gTemp.mem[CubeIndex(3, 3, 0, 0, 1) + 1] =
       SetToBag({[src |-> CubeIndex(2, 2, 0, 0, 1), den |-> 2]})

\* C14: with kernel and stride 1 in both dimensions, in either rounding mode
\* and for every input size, Forward's output has the input's shape and its
\* element at every position is the input's element at that position, and
\* Backward's g has gy's shape and holds gy's element at every position.
C14_UnitKernelIdentity ==
  (mpFault = "none" /\ kernelWidth = 1 /\ kernelHeight = 1
     /\ strideWidth = 1 /\ strideHeight = 1) =>
    /\ mpPc \in {"forwarded", "backwarded"} =>
         /\ outputWidth = inputWidth
         /\ outputHeight = inputHeight
         /\ mpOutput.n_rows = inputWidth * inputHeight * inSize
         /\ mpOutput.n_cols = batchSize
         /\ Len(mpOutput.mem) = inputWidth * inputHeight * inSize * batchSize
         /\ \A p \in DOMAIN mpOutput.mem :
              mpOutput.mem[p] = [cells |-> {p - 1}, den |-> 1]
    /\ mpPc = "backwarded" =>
         /\ mpG.n_rows = outputWidth * outputHeight * inSize
         /\ mpG.n_cols = batchSize
         /\ Len(mpG.mem) = outputWidth * outputHeight * outSize
         /\ \A p \in DOMAIN mpG.mem :
              mpG.mem[p] = SetToBag({[src |-> p - 1, den |-> 1]})

\* Ceil mode with kernel and stride 1 has passed two slices of 2x3 through
\* Forward and Backward.
C14_Witness ==
  /\ mpPc = "backwarded" /\ mpFault = "none" /\ ~floor
  /\ kernelWidth = 1 /\ kernelHeight = 1
  /\ strideWidth = 1 /\ strideHeight = 1
  /\ inputWidth = 2 /\ inputHeight = 3
  /\ batchSize = 2
  /\ Len(mpOutput.mem) = 12
  /\ mpOutput.mem[12] = [cells |-> {11}, den |-> 1]
  /\ Len(mpG.mem) = 12
====
